---------------------------- MODULE Spec2Model ----------------------------
(***************************************************************************)
(* render_mermaid of pipdeptree/_render/mermaid.py as a state machine.     *)
(*                                                                         *)
(* A Python str is a sequence of one-character strings, so that f-string   *)
(* formatting is concatenation, "class" + "_" + "0" is the text "class_0", *)
(* and sorted() compares texts character by character.                     *)
(*                                                                         *)
(* tree.items() and each neighbor list are iterators: the items they yield *)
(* are inputs, drawn one at a time; `tree` holds what has been yielded so  *)
(* far, in the order of iteration.                                         *)
(***************************************************************************)
EXTENDS Integers, Sequences, FiniteSets

\* -------------------------------------------------------------- bounds
\* The number of package references (top-level entries plus neighbors) the
\* iterators of one render call yield.
MaxEncounters == 5

\* ------------------------------------------------------------ Python str
NL == "\n"

\* The characters the model's texts use, in ascending code point order.
Chars ==
    << NL, " ", "\"", "(", ")", "-", ".",
       "0", "1", "2", "3", "4", "5", "6", "7", "8", "9",
       ":", "=", ">",
       "A", "C", "D", "S", "T",
       "[", "\\", "]", "_",
       "a", "b", "c", "d", "e", "f", "g", "h", "i", "k", "l", "m", "n",
       "o", "p", "r", "s", "t", "u", "v", "w", "y" >>

CodePoint == [c \in {Chars[i] : i \in DOMAIN Chars} |->
                 CHOOSE i \in DOMAIN Chars : Chars[i] = c]

\* str.__lt__: the first differing character decides, a proper prefix is less.
StrLess(s, t) ==
    \E i \in 1..(Len(t)) :
        /\ i <= Len(s) + 1
        /\ \A j \in 1..(i - 1) : s[j] = t[j]
        /\ \/ i = Len(s) + 1
           \/ CodePoint[s[i]] < CodePoint[t[i]]

Digits == <<"0", "1", "2", "3", "4", "5", "6", "7", "8", "9">>

\* str(number) of a non-negative int, as the f-string formats it.
RECURSIVE Str(_)
Str(n) ==
    IF n < 10 THEN <<Digits[n + 1]>>
    ELSE Str(n \div 10) \o <<Digits[(n % 10) + 1]>>

\* sep.join(parts[i:])
RECURSIVE JoinFrom(_, _, _)
JoinFrom(sep, parts, i) ==
    IF i > Len(parts) THEN <<>>
    ELSE IF i = Len(parts) THEN parts[i]
    ELSE parts[i] \o sep \o JoinFrom(sep, parts, i + 1)

\* sep.join(parts)
Join(sep, parts) == JoinFrom(sep, parts, 1)

\* Mutant of sorted: descending order.
sorted_descending(S) ==
    [i \in 1..Cardinality(S) |->
        CHOOSE x \in S : Cardinality({y \in S : StrLess(x, y)}) = i - 1]

\* sorted(set of str): ascending by StrLess; the i-th text is the one with
\* i - 1 texts of the set below it.
sorted(S) ==
    [i \in 1..Cardinality(S) |->
        CHOOSE x \in S : Cardinality({y \in S : StrLess(y, x)}) = i - 1]

\* ------------------------------------------------------- module constants
_RESERVED_IDS ==
    { <<"C", "4", "C", "o", "m", "p", "o", "n", "e", "n", "t">>,
      <<"C", "4", "C", "o", "n", "t", "a", "i", "n", "e", "r">>,
      <<"C", "4", "D", "e", "p", "l", "o", "y", "m", "e", "n", "t">>,
      <<"C", "4", "D", "y", "n", "a", "m", "i", "c">>,
      <<"_", "b", "l", "a", "n", "k">>,
      <<"_", "p", "a", "r", "e", "n", "t">>,
      <<"_", "s", "e", "l", "f">>,
      <<"_", "t", "o", "p">>,
      <<"c", "a", "l", "l">>,
      <<"c", "l", "a", "s", "s">>,
      <<"c", "l", "a", "s", "s", "D", "e", "f">>,
      <<"c", "l", "i", "c", "k">>,
      <<"e", "n", "d">>,
      <<"f", "l", "o", "w", "c", "h", "a", "r", "t">>,
      <<"f", "l", "o", "w", "c", "h", "a", "r", "t", "-", "v", "2">>,
      <<"g", "r", "a", "p", "h">>,
      <<"i", "n", "t", "e", "r", "p", "o", "l", "a", "t", "e">>,
      <<"l", "i", "n", "k", "S", "t", "y", "l", "e">>,
      <<"s", "t", "y", "l", "e">>,
      <<"s", "u", "b", "g", "r", "a", "p", "h">> }

\* Python's None: a value no str equals.
None == <<"None">>

indent == <<" ", " ", " ", " ">>

\* dedent(f"""flowchart TD\n{indent}classDef missing stroke-dasharray: 5\n""")
FlowchartLine == <<"f", "l", "o", "w", "c", "h", "a", "r", "t", " ", "T", "D">>

ClassDefLine ==
    indent \o
    <<"c", "l", "a", "s", "s", "D", "e", "f", " ", "m", "i", "s", "s", "i", "n", "g",
      " ", "s", "t", "r", "o", "k", "e", "-", "d", "a", "s", "h", "a", "r", "r", "a",
      "y", ":", " ", "5">>

Header == FlowchartLine \o <<NL>> \o ClassDefLine \o <<NL>>

\* ------------------------------------------------------------ the inputs
k_a == <<"a">>
k_class == <<"c", "l", "a", "s", "s">>
k_class_0 == <<"c", "l", "a", "s", "s", "_", "0">>

\* The packages a graph's top-level entries are drawn from: the fields
\* render_mermaid reads of a top-level package (is_missing in reverse mode only).
Packages ==
    { [key |-> k_a, project_name |-> <<"A">>, version |-> <<"1">>,
       is_missing |-> FALSE],
      [key |-> k_class, project_name |-> <<"C", "l", "a", "s", "s">>,
       version |-> <<"2">>, is_missing |-> FALSE],
      [key |-> k_class_0, project_name |-> k_class_0, version |-> <<"3">>,
       is_missing |-> TRUE] }

\* The neighbors an entry's list is drawn from: the fields render_mermaid
\* reads of a neighbor. version_spec <<>> stands for None and for "", which
\* `or "any"` treats alike.
Requirements ==
    { [key |-> k_class, project_name |-> <<"C", "l", "a", "s", "s">>,
       is_missing |-> FALSE, version_spec |-> <<>>],
      [key |-> k_class_0, project_name |-> k_class_0,
       is_missing |-> TRUE, version_spec |-> <<">", "=", "1">>],
      [key |-> k_a, project_name |-> <<"A">>,
       is_missing |-> FALSE, version_spec |-> <<">", "=", "1">>],
      [key |-> k_class_0, project_name |-> k_class_0,
       is_missing |-> FALSE, version_spec |-> <<>>] }

\* A reverse entry's dependents are installed packages.
Dependents == {r \in Requirements : ~r.is_missing}

\* --------------------------------------------------------------- state
VARIABLES
    reversed,        \* isinstance(tree, ReversedPackageDAG)
    tree,            \* the items yielded so far: <<[package, neighbors]>>
    node_ids_map,    \* dict: package key -> issued identifier
    nodes,           \* set of node declarations
    edges,           \* set of edge declarations
    package,         \* the entry the outer loop is at
    package_key,     \* its identifier
    dependency,      \* the neighbor the inner loop is at
    dependency_key,  \* its identifier
    key,             \* mermaid_id's argument
    number,          \* mermaid_id's suffix counter
    result,          \* mermaid_id's return value
    caller,          \* where mermaid_id returns to: "node" or "edge"
    pc,              \* "items", "mermaid_id", "probe", "node", "neighbors",
                     \* "edge", "emit", "done"
    sorted_nodes,    \* sorted(nodes)
    sorted_edges,    \* sorted(edges)
    output           \* the returned text

vars == << reversed, tree, node_ids_map, nodes, edges, package, package_key,
           dependency, dependency_key, key, number, result, caller, pc,
           sorted_nodes, sorted_edges, output >>

\* ------------------------------------------------------------ mermaid_id
\* Mutant of Lookup: the memo is never hit.
LookupMiss(map, k) == None

\* node_ids_map.get(key)
Lookup(map, k) == IF k \in DOMAIN map THEN map[k] ELSE None

\* Mutant of IsReserved: no key is taken for a reserved word.
NeverReserved(k) == FALSE

\* key in _RESERVED_IDS
IsReserved(k) == k \in _RESERVED_IDS

\* f"{key}_{number}"
NewId(k, n) == k \o <<"_">> \o Str(n)

\* Mutant of IsTaken: the first candidate is always accepted.
NeverTaken(map, new_id) == FALSE

\* new_id in node_ids_map: a dict's `in` tests its keys.
IsTaken(map, new_id) == new_id \in DOMAIN map

\* Mutant of NextNumber: the counter is not advanced.
SameNumber(n) == n

\* number += 1
NextNumber(n) == n + 1

\* node_ids_map[key] = id
Put(map, k, id) == [x \in DOMAIN map \cup {k} |-> IF x = k THEN id ELSE map[x]]

\* ------------------------------------------------------- declaration text
BackslashN == <<"\\", "n">>

\* "\\n".join((package.project_name,
\*             "(missing)" if package.is_missing else package.installed_version))
ReverseLabel(p) ==
    p.project_name \o BackslashN \o
    (IF p.is_missing THEN <<"(", "m", "i", "s", "s", "i", "n", "g", ")">>
     ELSE p.version)

\* f"{package.project_name}\\n{package.version}"
ForwardLabel(p) == p.project_name \o BackslashN \o p.version

\* f"{dependency.project_name}\\n(missing)"
MissingLabel(d) ==
    d.project_name \o BackslashN \o <<"(", "m", "i", "s", "s", "i", "n", "g", ")">>

\* version_spec or "any"
EdgeLabel(d) == IF d.version_spec = <<>> THEN <<"a", "n", "y">> ELSE d.version_spec

\* f'{id}["{label}"]'
NodeDecl(id, label) == id \o <<"[", "\"">> \o label \o <<"\"", "]">>

\* f'{id}["{label}"]:::missing'
MissingNodeDecl(id, label) ==
    NodeDecl(id, label) \o <<":", ":", ":", "m", "i", "s", "s", "i", "n", "g">>

\* f'{a} -- "{label}" --> {b}'
SolidEdge(a, label, b) ==
    a \o <<" ", "-", "-", " ", "\"">> \o label \o <<"\"", " ", "-", "-", ">", " ">> \o b

\* f"{a} -.-> {b}"
DashedEdge(a, b) == a \o <<" ", "-", ".", "-", ">", " ">> \o b

\* Mutant of ForwardDependencyNodes: a missing dependency gets no node.
NoDependencyNodes(d, d_key) == {}

\* The node declarations the forward branch adds for a dependency.
ForwardDependencyNodes(d, d_key) ==
    IF d.is_missing THEN {MissingNodeDecl(d_key, MissingLabel(d))} ELSE {}

\* Mutant of ForwardDependencyEdge: is_missing is not tested.
AlwaysSolidEdge(p_key, d, d_key) == SolidEdge(p_key, EdgeLabel(d), d_key)

\* The edge declaration the forward branch adds for a dependency.
ForwardDependencyEdge(p_key, d, d_key) ==
    IF d.is_missing THEN DashedEdge(p_key, d_key)
    ELSE SolidEdge(p_key, EdgeLabel(d), d_key)

\* The text render_mermaid returns for the sorted declarations.
Rendered(node_lines, edge_lines) ==
    Header
    \o indent \o Join(<<NL>> \o indent, node_lines)
    \o <<NL>> \o indent \o Join(<<NL>> \o indent, edge_lines)
    \o <<NL>>

\* ------------------------------------------------------------- the graph
RECURSIVE Encounters(_)
Encounters(t) ==
    IF t = <<>> THEN 0 ELSE 1 + Len(t[1].neighbors) + Encounters(Tail(t))

TopLevelKeys(t) == {t[i].package.key : i \in DOMAIN t}

Neighbors == IF reversed THEN Dependents ELSE Requirements

\* ---------------------------------------------------------------- steps
Init ==
    /\ reversed \in BOOLEAN
    /\ tree = <<>>
    /\ node_ids_map = <<>>
    /\ nodes = {}
    /\ edges = {}
    /\ package = None
    /\ package_key = None
    /\ dependency = None
    /\ dependency_key = None
    /\ key = None
    /\ number = 0
    /\ result = None
    /\ caller = "node"
    /\ pc = "items"
    /\ sorted_nodes = <<>>
    /\ sorted_edges = <<>>
    /\ output = None

\* for package, ... in tree.items(): the next entry; mermaid_id(package.key)
NextItem(p) ==
    /\ pc = "items"
    /\ Encounters(tree) < MaxEncounters
    /\ p.key \notin TopLevelKeys(tree)
    /\ tree' = Append(tree, [package |-> p, neighbors |-> <<>>])
    /\ package' = p
    /\ key' = p.key
    /\ caller' = "node"
    /\ pc' = "mermaid_id"
    /\ UNCHANGED << reversed, node_ids_map, nodes, edges, package_key,
                    dependency, dependency_key, number, result,
                    sorted_nodes, sorted_edges, output >>

\* mermaid_id up to the probe loop
MermaidIdEnter ==
    /\ pc = "mermaid_id"
    /\ LET canonical_id == Lookup(node_ids_map, key)
       IN  IF canonical_id # None
           THEN /\ result' = canonical_id
                /\ pc' = caller
                /\ UNCHANGED << node_ids_map, number >>
           ELSE IF ~IsReserved(key)
           THEN /\ node_ids_map' = Put(node_ids_map, key, key)
                /\ result' = key
                /\ pc' = caller
                /\ UNCHANGED number
           ELSE /\ number' = 0
                /\ pc' = "probe"
                /\ UNCHANGED << node_ids_map, result >>
    /\ UNCHANGED << reversed, tree, nodes, edges, package, package_key,
                    dependency, dependency_key, key, caller,
                    sorted_nodes, sorted_edges, output >>

\* one turn of mermaid_id's while True
MermaidIdProbe ==
    /\ pc = "probe"
    /\ LET new_id == NewId(key, number)
       IN  IF ~IsTaken(node_ids_map, new_id)
           THEN /\ node_ids_map' = Put(node_ids_map, key, new_id)
                /\ result' = new_id
                /\ pc' = caller
                /\ UNCHANGED number
           ELSE /\ number' = NextNumber(number)
                /\ UNCHANGED << node_ids_map, result, pc >>
    /\ UNCHANGED << reversed, tree, nodes, edges, package, package_key,
                    dependency, dependency_key, key, caller,
                    sorted_nodes, sorted_edges, output >>

\* reverse branch: the entry's node
ReversePackageNode ==
    /\ pc = "node"
    /\ reversed
    /\ package_key' = result
    /\ nodes' = nodes \cup {NodeDecl(result, ReverseLabel(package))}
    /\ pc' = "neighbors"
    /\ UNCHANGED << reversed, tree, node_ids_map, edges, package, dependency,
                    dependency_key, key, number, result, caller,
                    sorted_nodes, sorted_edges, output >>

\* forward branch: the entry's node
ForwardPackageNode ==
    /\ pc = "node"
    /\ ~reversed
    /\ package_key' = result
    /\ nodes' = nodes \cup {NodeDecl(result, ForwardLabel(package))}
    /\ pc' = "neighbors"
    /\ UNCHANGED << reversed, tree, node_ids_map, edges, package, dependency,
                    dependency_key, key, number, result, caller,
                    sorted_nodes, sorted_edges, output >>

\* for (reverse_)dependency in ...: the next neighbor; mermaid_id(its key)
NextNeighbor(d) ==
    /\ pc = "neighbors"
    /\ Encounters(tree) < MaxEncounters
    /\ d \in Neighbors
    /\ tree' = [tree EXCEPT ![Len(tree)].neighbors = Append(@, d)]
    /\ dependency' = d
    /\ key' = d.key
    /\ caller' = "edge"
    /\ pc' = "mermaid_id"
    /\ UNCHANGED << reversed, node_ids_map, nodes, edges, package, package_key,
                    dependency_key, number, result,
                    sorted_nodes, sorted_edges, output >>

\* reverse branch: the edge to a dependent
ReverseEdge ==
    /\ pc = "edge"
    /\ reversed
    /\ dependency_key' = result
    /\ edges' = edges \cup {SolidEdge(package_key, EdgeLabel(dependency), result)}
    /\ pc' = "neighbors"
    /\ UNCHANGED << reversed, tree, node_ids_map, nodes, package, package_key,
                    dependency, key, number, result, caller,
                    sorted_nodes, sorted_edges, output >>

\* forward branch: the edge to a dependency, and the node of a missing one
ForwardEdge ==
    /\ pc = "edge"
    /\ ~reversed
    /\ dependency_key' = result
    /\ nodes' = nodes \cup ForwardDependencyNodes(dependency, result)
    /\ edges' = edges \cup {ForwardDependencyEdge(package_key, dependency, result)}
    /\ pc' = "neighbors"
    /\ UNCHANGED << reversed, tree, node_ids_map, package, package_key,
                    dependency, key, number, result, caller,
                    sorted_nodes, sorted_edges, output >>

\* the neighbor list is exhausted
NeighborsExhausted ==
    /\ pc = "neighbors"
    /\ pc' = "items"
    /\ UNCHANGED << reversed, tree, node_ids_map, nodes, edges, package,
                    package_key, dependency, dependency_key, key, number,
                    result, caller,
                    sorted_nodes, sorted_edges, output >>

\* tree.items() is exhausted: sort the collected declarations
SortDeclarations ==
    /\ pc = "items"
    /\ sorted_nodes' = sorted(nodes)
    /\ sorted_edges' = sorted(edges)
    /\ pc' = "emit"
    /\ UNCHANGED << reversed, tree, node_ids_map, nodes, edges, package,
                    package_key, dependency, dependency_key, key, number,
                    result, caller, output >>

\* join the sorted declarations below the header and return the text
Emit ==
    /\ pc = "emit"
    /\ output' = Rendered(sorted_nodes, sorted_edges)
    /\ pc' = "done"
    /\ UNCHANGED << reversed, tree, node_ids_map, nodes, edges, package,
                    package_key, dependency, dependency_key, key, number,
                    result, caller, sorted_nodes, sorted_edges >>

Next ==
    \/ \E p \in Packages : NextItem(p)
    \/ MermaidIdEnter
    \/ MermaidIdProbe
    \/ ReversePackageNode
    \/ ForwardPackageNode
    \/ \E d \in Requirements : NextNeighbor(d)
    \/ ReverseEdge
    \/ ForwardEdge
    \/ NeighborsExhausted
    \/ SortDeclarations
    \/ Emit

Spec == Init /\ [][Next]_vars

\* The call runs to its end: no step waits on anything.
FairSpec == Spec /\ WF_vars(Next)


\* ------------------------------------------- render_mermaid as a function
\* mermaid_id's while True, from `number` on
RECURSIVE ProbeFrom(_, _, _)
ProbeFrom(map, k, n) ==
    IF ~IsTaken(map, NewId(k, n)) THEN NewId(k, n)
    ELSE ProbeFrom(map, k, NextNumber(n))

\* mermaid_id(key) on the map `map`: the map after the call and the value returned
mermaid_id(map, k) ==
    LET canonical_id == Lookup(map, k)
    IN  IF canonical_id # None THEN [map |-> map, id |-> canonical_id]
        ELSE IF ~IsReserved(k) THEN [map |-> Put(map, k, k), id |-> k]
        ELSE LET new_id == ProbeFrom(map, k, 0)
             IN  [map |-> Put(map, k, new_id), id |-> new_id]

\* the inner for loop over the neighbors `ds` of the entry with identifier p_key
RECURSIVE WalkNeighbors(_, _, _, _)
WalkNeighbors(st, rev, p_key, ds) ==
    IF ds = <<>> THEN st
    ELSE LET d == Head(ds)
             r == mermaid_id(st.map, d.key)
         IN  WalkNeighbors(
                 IF rev
                 THEN [map |-> r.map,
                       nodes |-> st.nodes,
                       edges |-> st.edges \cup {SolidEdge(p_key, EdgeLabel(d), r.id)}]
                 ELSE [map |-> r.map,
                       nodes |-> st.nodes \cup ForwardDependencyNodes(d, r.id),
                       edges |-> st.edges \cup {ForwardDependencyEdge(p_key, d, r.id)}],
                 rev, p_key, Tail(ds))

\* the outer for loop over the items `t`
RECURSIVE WalkItems(_, _, _)
WalkItems(st, rev, t) ==
    IF t = <<>> THEN st
    ELSE LET p == Head(t).package
             r == mermaid_id(st.map, p.key)
             label == IF rev THEN ReverseLabel(p) ELSE ForwardLabel(p)
         IN  WalkItems(
                 WalkNeighbors([map |-> r.map,
                                nodes |-> st.nodes \cup {NodeDecl(r.id, label)},
                                edges |-> st.edges],
                               rev, r.id, Head(t).neighbors),
                 rev, Tail(t))

\* render_mermaid(tree) for a tree that iterates in the order of `t`
render_mermaid(t, rev) ==
    LET st == WalkItems([map |-> <<>>, nodes |-> {}, edges |-> {}], rev, t)
    IN  Rendered(sorted(st.nodes), sorted(st.edges))


\* ------------------------------------------------- reading a text and a tree
\* str.splitlines() for texts whose only line break is NL
Lines(text) ==
    LET breaks == {i \in DOMAIN text : text[i] = NL}
        \* the position of the k-th line break
        break(k) == CHOOSE i \in breaks : Cardinality({j \in breaks : j < i}) = k - 1
        count == IF text # <<>> /\ text[Len(text)] # NL
                 THEN Cardinality(breaks) + 1 ELSE Cardinality(breaks)
    IN  [k \in 1..count |->
            SubSeq(text,
                   IF k = 1 THEN 1 ELSE break(k - 1) + 1,
                   IF k <= Cardinality(breaks) THEN break(k) - 1 ELSE Len(text))]

HasPrefix(s, prefix) ==
    /\ Len(prefix) <= Len(s)
    /\ SubSeq(s, 1, Len(prefix)) = prefix

Contains(s, part) ==
    \E i \in 1..(Len(s) - Len(part) + 1) : SubSeq(s, i, i + Len(part) - 1) = part

\* The lines of a text after its first two.
BodyLines(text) == LET ls == Lines(text) IN SubSeq(ls, 3, Len(ls))

IsDeclLine(l) == HasPrefix(l, indent) /\ Len(l) > Len(indent)

Unindent(l) == SubSeq(l, Len(indent) + 1, Len(l))

\* The declarations a text lists, in the order of their lines: the body lines
\* that hold more than the indentation, without it.
Decls(text) ==
    LET ls == SelectSeq(BodyLines(text), IsDeclLine)
    IN  [i \in DOMAIN ls |-> Unindent(ls[i])]

DeclSet(text) == LET ds == Decls(text) IN {ds[i] : i \in DOMAIN ds}

IsNodeDecl(d) == Contains(d, <<"[", "\"">>)

IsNodeDeclOf(d, id) == HasPrefix(d, id \o <<"[", "\"">>)

IsSolidEdge(d) == Contains(d, <<" ", "-", "-", " ", "\"">>)

Ascending(seq) == \A i \in 1..(Len(seq) - 1) : StrLess(seq[i], seq[i + 1])

Range(f) == {f[x] : x \in DOMAIN f}

\* The keys passed to mermaid_id so far, in the order of the calls.
RECURSIVE EncounterSeq(_)
EncounterSeq(t) ==
    IF t = <<>> THEN <<>>
    ELSE <<t[1].package.key>>
         \o [j \in DOMAIN t[1].neighbors |-> t[1].neighbors[j].key]
         \o EncounterSeq(Tail(t))

\* The (entry, neighbor) pairs of the tree.
Pairs(t) ==
    UNION {{<<t[i].package, t[i].neighbors[j]>> : j \in DOMAIN t[i].neighbors} :
              i \in DOMAIN t}


\* Every order in which a tree with the items of `t` can iterate.
Perm(n) == {f \in [1..n -> 1..n] : \A i, j \in 1..n : f[i] = f[j] => i = j}

Reorder(seq, f) == [i \in DOMAIN seq |-> seq[f[i]]]

ItemOrders(item) ==
    {[package |-> item.package, neighbors |-> Reorder(item.neighbors, g)] :
        g \in Perm(Len(item.neighbors))}

Reorderings(t) ==
    UNION {{u \in [DOMAIN t -> UNION {ItemOrders(t[i]) : i \in DOMAIN t}] :
               \A i \in DOMAIN t : u[i] \in ItemOrders(t[f[i]])} :
              f \in Perm(Len(t))}

\* ================================================================ claims

\* C1. Identifier uniqueness: the identifier map is injective after every
\* call of mermaid_id: no two distinct package keys are mapped to the same
\* identifier. (Fails: "class" first gets "class_0", then the key "class_0"
\* is mapped to itself.)
C1_Injective ==
    \A k1, k2 \in DOMAIN node_ids_map :
        node_ids_map[k1] = node_ids_map[k2] => k1 = k2

\* C2. Iteration-order independence: the returned text is the same for every
\* order in which the top-level entries and the neighbor lists of the same
\* graph are iterated. (Fails for a graph holding "class" and "class_0".)
C2_OrderIndependent ==
    pc = "done" =>
        \A t \in Reorderings(tree) : render_mermaid(t, reversed) = output

\* C3 as claimed. Every key the call encounters, as a top-level entry or only
\* as a neighbor, has a node declaration for its identifier in the output.
C3_EveryEncounteredKeyDeclared ==
    pc = "done" =>
        LET decls == DeclSet(output)
        IN  \A k \in DOMAIN node_ids_map :
                \E d \in decls : IsNodeDeclOf(d, node_ids_map[k])

\* The keys render_mermaid declares a node for: the top-level entries and, in
\* forward mode, the dependencies flagged missing.
DeclaredKeys ==
    TopLevelKeys(tree)
    \cup (IF reversed THEN {}
          ELSE {pr[2].key : pr \in {x \in Pairs(tree) : x[2].is_missing}})

\* C3 as amended. In both modes every top-level entry's key, and in forward
\* mode every key of a dependency flagged missing, has a node declaration for
\* its identifier in the output, and the output holds no other node
\* declaration: a key met only as a dependent (reverse mode) or only as a
\* dependency not flagged missing (forward mode) gets none of its own.
C3_DeclaredKeysHaveNodes ==
    pc = "done" =>
        LET decls == DeclSet(output)
            keys == DeclaredKeys
        IN  /\ \A k \in keys :
                   \E d \in decls : IsNodeDeclOf(d, node_ids_map[k])
            /\ \A d \in decls :
                   IsNodeDecl(d) =>
                       \E k \in keys : IsNodeDeclOf(d, node_ids_map[k])

\* C3 witness: a forward render has returned for a graph with a missing
\* dependency and with a key met only as a dependency that is not missing,
\* for which the output has no node declaration.
C3_Witness ==
    /\ pc = "done"
    /\ ~reversed
    /\ \E pr \in Pairs(tree) : pr[2].is_missing
    /\ LET decls == DeclSet(output)
       IN  \E k \in DOMAIN node_ids_map \ DeclaredKeys :
               \A d \in decls : ~IsNodeDeclOf(d, node_ids_map[k])

\* C4. Reserved-word avoidance: no identifier mermaid_id has issued or
\* returned, and so none used in a declaration, is a reserved word.
C4_NoReservedIdentifier ==
    /\ \A k \in DOMAIN node_ids_map : node_ids_map[k] \notin _RESERVED_IDS
    /\ result \notin _RESERVED_IDS
    /\ package_key \notin _RESERVED_IDS
    /\ dependency_key \notin _RESERVED_IDS

\* C4 witness: a reserved word was a top-level key and a neighbor's key, and
\* the render has returned.
C4_Witness ==
    /\ pc = "done"
    /\ \E k \in TopLevelKeys(tree) : IsReserved(k)
    /\ \E pr \in Pairs(tree) : IsReserved(pr[2].key)

\* C5. Idempotent mapping: an identifier, once assigned to a key, never
\* changes, and a call of mermaid_id with a mapped key returns the assigned
\* identifier and leaves the map unchanged.
C5_IdempotentMapping ==
    [][ /\ \A k \in DOMAIN node_ids_map :
               /\ k \in DOMAIN node_ids_map'
               /\ node_ids_map'[k] = node_ids_map[k]
        /\ (pc = "mermaid_id" /\ key \in DOMAIN node_ids_map) =>
               /\ result' = node_ids_map[key]
               /\ node_ids_map' = node_ids_map
      ]_vars

\* C5 witness: mermaid_id has returned from a call with a reserved key it was
\* already called with, another key having been mapped in between.
C5_Witness ==
    /\ pc \in {"node", "edge"}
    /\ IsReserved(key)
    /\ LET e == EncounterSeq(tree)
       IN  /\ e[Len(e)] = key
           /\ \E i, j \in DOMAIN e : i < j /\ j < Len(e) /\ e[i] = key /\ e[j] # key

\* C6. Missing-dependency styling: after a forward render, every dependency d
\* of an entry P flagged missing has in the output the node declaration of
\* d's identifier labeled with d's project name and "(missing)" and tagged
\* ":::missing", and the dashed edge "id(P) -.-> id(d)"; and every labeled
\* solid edge of the output is that of a dependency not flagged missing.
C6_MissingStyling ==
    (pc = "done" /\ ~reversed) =>
        LET decls == DeclSet(output)
            pairs == Pairs(tree)
        IN  /\ \A pr \in pairs :
                   pr[2].is_missing =>
                       /\ node_ids_map[pr[2].key]
                              \o <<"[", "\"">> \o pr[2].project_name
                              \o <<"\\", "n", "(", "m", "i", "s", "s", "i", "n", "g", ")">>
                              \o <<"\"", "]", ":", ":", ":", "m", "i", "s", "s", "i", "n", "g">>
                          \in decls
                       /\ node_ids_map[pr[1].key] \o <<" ", "-", ".", "-", ">", " ">>
                              \o node_ids_map[pr[2].key]
                          \in decls
            /\ \A e \in decls :
                   IsSolidEdge(e) =>
                       \E pr \in pairs :
                           /\ ~pr[2].is_missing
                           /\ e = SolidEdge(node_ids_map[pr[1].key], EdgeLabel(pr[2]),
                                            node_ids_map[pr[2].key])

\* C6 witness: a forward render has returned for an entry with a dependency
\* flagged missing and another dependency on the same key not flagged missing.
C6_Witness ==
    /\ pc = "done"
    /\ ~reversed
    /\ \E p1, p2 \in Pairs(tree) :
           /\ p1[1] = p2[1]
           /\ p1[2].key = p2[2].key
           /\ p1[2].is_missing
           /\ ~p2[2].is_missing

\* C7. Sorted, duplicate-free emission: the output is the header line, the
\* classDef line, then every collected node declaration exactly once in
\* strictly ascending order, then every collected edge declaration exactly
\* once in strictly ascending order, each indented; no node follows an edge.
C7_SortedEmission ==
    pc = "done" =>
        LET ls == Lines(output)
            ds == Decls(output)
            n  == Cardinality(nodes)
        IN  /\ ls[1] = FlowchartLine
            /\ ls[2] = ClassDefLine
            /\ \A i \in 3..Len(ls) : HasPrefix(ls[i], indent)
            /\ Len(ds) = n + Cardinality(edges)
            /\ {ds[i] : i \in 1..n} = nodes
            /\ {ds[i] : i \in (n + 1)..Len(ds)} = edges
            /\ Ascending(SubSeq(ds, 1, n))
            /\ Ascending(SubSeq(ds, n + 1, Len(ds)))

\* C7 witness: a render has returned where two entries' traversals produced
\* the same node declaration (a shared missing dependency) and the neighbors
\* met produced fewer distinct edge declarations than there were neighbors,
\* with several nodes and several edges collected.
C7_Witness ==
    /\ pc = "done"
    /\ Cardinality(nodes) >= 2
    /\ Cardinality(edges) >= 2
    /\ Cardinality(edges) < Encounters(tree) - Len(tree)
    /\ \E p1, p2 \in Pairs(tree) :
           p1[1] # p2[1] /\ p1[2] = p2[2] /\ p1[2].is_missing

\* C8. Empty graph: for a graph with no entries the returned text consists of
\* the header line and the classDef line only. (Fails: two lines holding only
\* the indentation follow.)
C8_EmptyGraphOnlyHeader ==
    (pc = "done" /\ tree = <<>>) =>
        Lines(output) = <<FlowchartLine, ClassDefLine>>

\* C9. Termination: every render call eventually returns.
C9_Termination == <>(pc = "done")

\* C9 witness: a render has returned for a graph with a self-loop, a cycle
\* through two entries and a key reached on several paths, after the suffix
\* probe went past its first candidate.
C9_Witness ==
    /\ pc = "done"
    /\ number > 0
    /\ \E pr \in Pairs(tree) : pr[1].key = pr[2].key
    /\ \E p1, p2 \in Pairs(tree) :
           /\ p1[1].key # p1[2].key
           /\ p1[1].key = p2[2].key
           /\ p2[1].key = p1[2].key

\* C10. Suffix probe: a reserved key that gets mapped is assigned key_n for
\* the smallest n >= 0 such that key_n is not a value of the identifier map
\* at the time of the call.
C10_SuffixProbe ==
    [][ (IsReserved(key) /\ key \notin DOMAIN node_ids_map
                         /\ key \in DOMAIN node_ids_map') =>
            \E n \in 0..Cardinality(DOMAIN node_ids_map) :
                /\ node_ids_map'[key] = key \o <<"_">> \o Str(n)
                /\ key \o <<"_">> \o Str(n) \notin Range(node_ids_map)
                /\ \A m \in 0..(n - 1) :
                       key \o <<"_">> \o Str(m) \in Range(node_ids_map)
      ]_vars

\* C10 witness: "class" was mapped to "class_1", "class_0" being taken.
C10_Witness ==
    /\ k_class \in DOMAIN node_ids_map
    /\ node_ids_map[k_class] = <<"c", "l", "a", "s", "s", "_", "1">>
    /\ k_class_0 \in Range(node_ids_map)


=============================================================================
